---- MODULE Spec2Model ----
(***************************************************************************)
(* Model of src/agent/agent.py: one WebSocket connection served by         *)
(* websocket_chat, its ConnectionManager (request/response correlation,    *)
(* listener loop, work-item tasks) and the DynamicMCPTool proxy.           *)
(*                                                                         *)
(* Scheduling is asyncio's: one thread, a coroutine runs from one await to *)
(* the next without interleaving.  Every action below is one such run.     *)
(***************************************************************************)
EXTENDS Integers, Sequences, FiniteSets, Bags, TLC

VARIABLES
    wsOpen,                \* the transport: TRUE until the peer disconnects / the handler returns
    outbox,                \* bag of the frames accepted by websocket.send_text
    mcp_request_id,        \* ConnectionManager.mcp_request_id
    pending_mcp_requests,  \* ConnectionManager.pending_mcp_requests: id -> future (call index)
    calls,                 \* one record per send_mcp_request invocation (its future and position)
    agent_executor,        \* ConnectionManager.agent_executor
    listener_task,         \* ConnectionManager.listener_task (state of the asyncio.Task)
    mainpc,                \* position of websocket_chat
    workers,               \* one record per process_agent_message task
    logged,                \* the logging calls made by the last step
    ignored,               \* messageId of the frame the last step read and ignored (line 39 false)
    tools_data,            \* discover_and_create_tools: the descriptors of the reply (line 168)
    tools                  \* discover_and_create_tools: the proxies built (lines 170-190)

\* the locals of discover_and_create_tools
dvars == <<tools_data, tools>>

vars == <<wsOpen, outbox, mcp_request_id, pending_mcp_requests, calls,
          agent_executor, listener_task, mainpc, workers, logged, ignored,
          tools_data, tools>>

----------------------------------------------------------------------------
(* Bounds *)

\* send_mcp_request invocations per connection (discovery + tool calls)
MaxCalls == 3
\* work items accepted per connection
MaxWork == 2
\* time units that pass in one Tick
TickStep == 15

(* Program constants *)

\* asyncio.wait_for(future, timeout=15.0)
TIMEOUT == 15

----------------------------------------------------------------------------
(* Values *)

\* mcp_data.get("id") when the frame has no id: Python None
NoneId == 0 - 1
\* ids a reply frame may carry: issued ones, one never issued, none
ReplyIds == (1 .. (MaxCalls + 1)) \cup {NoneId}

\* reply payloads: a result carrying a "tools" list, a result without one, an error
Bodies == {"result_tools", "result_plain", "error"}

ToolNames == {"fill"}

\* "error" in response
HasError(body) == body = "error"

\* response.get("result", {}).get("tools", []) reduced to the tool names
ToolsOf(body) == IF body = "result_tools" THEN ToolNames ELSE {}

ReplyFrames == [id : ReplyIds, body : Bodies]

NoResult == [id |-> NoneId, body |-> "none"]

\* message_data.get("message", ""): "" is falsy
Messages == {"", "A"}

\* message_data.get("messageId"): None when absent, else the supplied id
NoMessageId == "<None>"
MessageIds == {NoMessageId, "1"}

\* Python truthiness of a string or None
Truthy(s) == s # "" /\ s # NoMessageId

\* key not present in a JSON object that was sent
Absent == "<absent>"

Log(level, msg) == [level |-> level, msg |-> msg]

MAIN == 0

\* no frame was ignored by the last step
NotIgnored == "<no>"

\* keyword arguments of a tool invocation (Python values) and what
\* pydantic_core.to_jsonable_python makes of them (JSON values)
Kwargs == {"{'value': 'x'}"}

\* variant: the keyword arguments are passed on as they are
to_jsonable_python_raw(kwargs) == kwargs

to_jsonable_python(kwargs) ==
    CASE kwargs = "{}" -> "{}"
      [] kwargs = "{'value': 'x'}" -> "{\"value\": \"x\"}"

----------------------------------------------------------------------------
(* Frames written with websocket.send_text *)

\* lines 79-85: "params" is present only when truthy; a tool call's params
\* are {"name": ..., "arguments": ...}
RequestFrame(id, method, name, arguments) ==
    [kind |-> "request", id |-> id, method |-> method, name |-> name,
     arguments |-> arguments,
     shape |-> Absent, text |-> Absent, messageId |-> Absent, src |-> MAIN]

\* process_agent_message: response = {shape: text}; if message_id: response["messageId"] = message_id
WorkReply(w, shape, text, message_id) ==
    [kind |-> "reply", id |-> 0, method |-> Absent, name |-> Absent,
     arguments |-> Absent,
     shape |-> shape, text |-> text,
     messageId |-> IF Truthy(message_id) THEN message_id ELSE Absent,
     src |-> w]

----------------------------------------------------------------------------
(* dict operations on pending_mcp_requests *)

DictSet(d, k, v) == [i \in (DOMAIN d) \cup {k} |-> IF i = k THEN v ELSE d[i]]

DictPop(d, k) == [i \in (DOMAIN d) \ {k} |-> d[i]]

EmptyDict == [i \in {} |-> 0]

----------------------------------------------------------------------------
Init ==
    /\ wsOpen = TRUE
    /\ outbox = EmptyBag
    /\ mcp_request_id = 0
    /\ pending_mcp_requests = EmptyDict
    /\ calls = <<>>
    /\ agent_executor = [bound |-> FALSE, tools |-> {}]
    /\ listener_task = "None"
    /\ mainpc = "start"
    /\ workers = <<>>
    /\ logged = <<>>
    /\ ignored = NotIgnored
    /\ tools_data = <<>>
    /\ tools = <<>>

----------------------------------------------------------------------------
(* ConnectionManager.cleanup: cancel the listener task unless it is done.  *)
(* A task that cancels itself while running ends in the cancelled state    *)
(* (Task.__step: StopIteration with _must_cancel set).                     *)
\* variant: cancelling a task that is already done is an error
cleanup_strict(task) ==
    IF task = "None" THEN task
    ELSE IF task \in {"finished", "cancelled"} THEN "raised"
    ELSE "cancelled"

cleanup(task) ==
    IF task # "None" /\ task \notin {"finished", "cancelled"}
    THEN "cancelled"
    ELSE task

\* line 62
CleanupLog == Log("info", "Cleaned up connection.")

----------------------------------------------------------------------------
(* ConnectionManager.send_mcp_request, lines 76-88: allocate the id and    *)
(* store the future; runs without suspension up to "await send_text".      *)

\* variant: the counter is read but not advanced
NextId_noinc(n) == n

NextId(n) == n + 1

NewCall(task, id, method, name, arguments) ==
    [task |-> task, id |-> id, method |-> method, name |-> name,
     arguments |-> arguments,
     pc |-> "sending", fut |-> "pending", result |-> NoResult, elapsed |-> 0]

\* variant: the future is not stored before the request is sent
send_mcp_request_nostore(task, method, name, arguments) ==
    /\ Len(calls) < MaxCalls
    /\ mcp_request_id' = NextId(mcp_request_id)
    /\ calls' = Append(calls, NewCall(task, mcp_request_id', method, name, arguments))
    /\ pending_mcp_requests' = pending_mcp_requests

send_mcp_request(task, method, name, arguments) ==
    /\ Len(calls) < MaxCalls
    /\ mcp_request_id' = NextId(mcp_request_id)
    /\ calls' = Append(calls, NewCall(task, mcp_request_id', method, name, arguments))
    /\ pending_mcp_requests' = DictSet(pending_mcp_requests, mcp_request_id', Len(calls) + 1)

----------------------------------------------------------------------------
(* ConnectionManager.handle_mcp_response: the next pending table, the next *)
(* futures and what happened ("resolved", "stale": popped a future that   *)
(* was already done, "unknown": not in the table).                         *)

SetResult(cs, c, frame) ==
    [cs EXCEPT ![c].fut = "result", ![c].result = frame]

\* variant: the reply is matched to the oldest pending request, not by id
handle_mcp_response_fifo(frame) ==
    IF DOMAIN pending_mcp_requests # {}
    THEN LET oldest == CHOOSE i \in DOMAIN pending_mcp_requests :
                           \A j \in DOMAIN pending_mcp_requests : i <= j
             future == pending_mcp_requests[oldest] IN
         [pending |-> DictPop(pending_mcp_requests, oldest),
          calls   |-> IF calls[future].fut = "pending"
                      THEN SetResult(calls, future, frame) ELSE calls,
          outcome |-> "resolved"]
    ELSE [pending |-> pending_mcp_requests, calls |-> calls, outcome |-> "unknown"]

\* variant: set_result without the "if not future.done()" test
handle_mcp_response_nodone(frame) ==
    LET request_id == frame.id IN
    IF request_id \in DOMAIN pending_mcp_requests
    THEN [pending |-> DictPop(pending_mcp_requests, request_id),
          calls   |-> SetResult(calls, pending_mcp_requests[request_id], frame),
          outcome |-> "resolved"]
    ELSE [pending |-> pending_mcp_requests, calls |-> calls, outcome |-> "unknown"]

\* variant: pop without the membership test; an unknown id raises KeyError,
\* which line 44 catches and logs as an error
handle_mcp_response_pop(frame) ==
    LET request_id == frame.id IN
    IF request_id \in DOMAIN pending_mcp_requests
    THEN [pending |-> DictPop(pending_mcp_requests, request_id),
          calls   |-> IF calls[pending_mcp_requests[request_id]].fut = "pending"
                      THEN SetResult(calls, pending_mcp_requests[request_id], frame)
                      ELSE calls,
          outcome |-> "resolved"]
    ELSE [pending |-> pending_mcp_requests, calls |-> calls, outcome |-> "raise"]

\* variant: the entry is left in the table and set_result is not guarded
handle_mcp_response_keep(frame) ==
    LET request_id == frame.id IN
    IF request_id \in DOMAIN pending_mcp_requests
    THEN [pending |-> pending_mcp_requests,
          calls   |-> SetResult(calls, pending_mcp_requests[request_id], frame),
          outcome |-> "resolved"]
    ELSE [pending |-> pending_mcp_requests, calls |-> calls, outcome |-> "unknown"]

handle_mcp_response(frame) ==
    LET request_id == frame.id IN
    IF request_id \in DOMAIN pending_mcp_requests
    THEN LET future == pending_mcp_requests[request_id] IN
         IF calls[future].fut = "pending"
         THEN [pending |-> DictPop(pending_mcp_requests, request_id),
               calls   |-> SetResult(calls, future, frame),
               outcome |-> "resolved"]
         ELSE [pending |-> DictPop(pending_mcp_requests, request_id),
               calls   |-> calls,
               outcome |-> "stale"]
    ELSE [pending |-> pending_mcp_requests, calls |-> calls, outcome |-> "unknown"]

\* line 72, the logging call of handle_mcp_response; an exception raised by
\* it is caught and logged by listen (lines 44-45)
HandleLog(outcome) ==
    IF outcome = "unknown"
    THEN <<Log("warning", "Received response for unknown request ID")>>
    ELSE IF outcome = "raise"
    THEN <<Log("error", "Error processing message")>>
    ELSE <<>>

----------------------------------------------------------------------------
(* What the caller of send_mcp_request does with its outcome, up to its    *)
(* next await.  An outcome is the response frame or the exception raised.  *)

Response(frame) == [kind |-> "response", frame |-> frame]
Raised(exc) == [kind |-> exc, frame |-> NoResult]

\* discover_and_create_tools: the tool names it returns
discover_and_create_tools(outcome) ==
    IF outcome.kind # "response" THEN {}
    ELSE IF HasError(outcome.frame.body) THEN {}
    ELSE ToolsOf(outcome.frame.body)

\* lines 165 and 193
DiscoverLog(outcome) ==
    IF outcome.kind # "response"
    THEN <<Log("error", "Error discovering tools")>>
    ELSE IF HasError(outcome.frame.body)
    THEN <<Log("error", "Error getting tools")>>
    ELSE <<>>

\* variant: without the try/except, an exception of send_mcp_request leaves _arun
arun_return_uncaught(name, outcome) ==
    IF outcome.kind # "response"
    THEN [kind |-> "raised", name |-> name, detail |-> outcome.kind]
    ELSE IF HasError(outcome.frame.body)
    THEN [kind |-> "error_string", name |-> name, detail |-> "error"]
    ELSE [kind |-> "result_string", name |-> name, detail |-> outcome.frame.body]

\* DynamicMCPTool._arun: the string it returns
arun_return(name, outcome) ==
    IF outcome.kind # "response"
    THEN [kind |-> "error_string", name |-> name, detail |-> outcome.kind]
    ELSE IF HasError(outcome.frame.body)
    THEN [kind |-> "error_string", name |-> name, detail |-> "error"]
    ELSE [kind |-> "result_string", name |-> name, detail |-> outcome.frame.body]

\* variant: an agent is created only when discovery found tools
Bind_nonempty(found) == [bound |-> found # {}, tools |-> found]

\* websocket_chat lines 220-223: both branches bind an agent
Bind(found) == [bound |-> TRUE, tools |-> found]

\* websocket_chat lines 218-223 (caller is the handler) or _arun lines 147-153
\* (caller is the engine of a work item)
Continue(task, name, outcome, logs) ==
    IF task = MAIN
    THEN /\ agent_executor' = Bind(discover_and_create_tools(outcome))
         /\ mainpc' = "await"
         /\ logged' = logs \o DiscoverLog(outcome)
         /\ UNCHANGED workers
    ELSE /\ workers' = [workers EXCEPT ![task].pc = "engine",
                                       ![task].tool_out = arun_return(name, outcome)]
         /\ logged' = logs
         /\ UNCHANGED <<agent_executor, mainpc>>

----------------------------------------------------------------------------
(* websocket_chat *)

\* variant: discovery starts without the listener task having been created
start_listening_skipped ==
    /\ UNCHANGED dvars
    /\ ignored' = NotIgnored
    /\ mainpc = "start"
    /\ mainpc' = "discover"
    /\ logged' = <<>>
    /\ UNCHANGED <<wsOpen, outbox, mcp_request_id, pending_mcp_requests, calls,
                   agent_executor, listener_task, workers>>

\* line 216 / start_listening: the listener task is created; it first runs
\* when the handler reaches its first await (inside the discovery request)
start_listening ==
    /\ UNCHANGED dvars
    /\ ignored' = NotIgnored
    /\ mainpc = "start"
    /\ listener_task' = "running"
    /\ mainpc' = "discover"
    /\ logged' = <<>>
    /\ UNCHANGED <<wsOpen, outbox, mcp_request_id, pending_mcp_requests, calls,
                   agent_executor, workers>>

\* line 218 -> line 162 -> lines 76-88
DiscoverIssue ==
    /\ UNCHANGED dvars
    /\ ignored' = NotIgnored
    /\ mainpc = "discover"
    /\ send_mcp_request(MAIN, "tools/list", Absent, Absent)
    /\ mainpc' = "discovering"
    /\ logged' = <<>>
    /\ UNCHANGED <<wsOpen, outbox, agent_executor, listener_task, workers>>

\* lines 225-232: "await manager.listener_task" returns or raises
\* CancelledError, then the finally clause runs cleanup and the handler
\* returns; the server closes the connection of a handler that returned
websocket_chat_exit ==
    /\ UNCHANGED dvars
    /\ ignored' = NotIgnored
    /\ mainpc = "await"
    /\ listener_task \in {"finished", "cancelled"}
    /\ listener_task' = cleanup(listener_task)
    /\ mainpc' = "closed"
    /\ wsOpen' = FALSE
    /\ logged' = (IF listener_task = "cancelled"
                  THEN <<Log("info", "WebSocket handler's listener task was cancelled.")>>
                  ELSE <<>>) \o <<CleanupLog>>
    /\ UNCHANGED <<outbox, mcp_request_id, pending_mcp_requests, calls,
                   agent_executor, workers>>

\* the handler task is cancelled from outside while it awaits the listener
\* task (line 228): the cancellation is passed on to the listener, which is
\* suspended in receive_text; CancelledError is not an Exception, so only the
\* finally clause of listen runs (line 52)
CancelHandler ==
    /\ UNCHANGED dvars
    /\ ignored' = NotIgnored
    /\ mainpc = "await"
    /\ listener_task = "running"
    /\ listener_task' = cleanup(listener_task)
    /\ logged' = <<CleanupLog>>
    /\ UNCHANGED <<wsOpen, outbox, mcp_request_id, pending_mcp_requests, calls,
                   agent_executor, mainpc, workers>>

----------------------------------------------------------------------------
(* The peer *)

PeerDisconnect ==
    /\ UNCHANGED dvars
    /\ ignored' = NotIgnored
    /\ wsOpen
    /\ mainpc \notin {"start", "discover"}
    /\ wsOpen' = FALSE
    /\ logged' = <<>>
    /\ UNCHANGED <<outbox, mcp_request_id, pending_mcp_requests, calls,
                   agent_executor, listener_task, mainpc, workers>>

----------------------------------------------------------------------------
(* ConnectionManager.listen: one action per frame read.  Nothing between   *)
(* receive_text and the next receive_text awaits something that suspends,  *)
(* so a frame is handled in one step.                                      *)

\* the listener is suspended in receive_text and the handler has yielded
Listening == listener_task = "running" /\ mainpc # "discover"

\* lines 34-35: a frame with "jsonrpc" and without "method"
ListenReply(frame) ==
    /\ UNCHANGED dvars
    /\ ignored' = NotIgnored
    /\ Listening
    /\ wsOpen
    /\ LET r == handle_mcp_response(frame) IN
        /\ pending_mcp_requests' = r.pending
        /\ calls' = r.calls
        /\ logged' = HandleLog(r.outcome)
    /\ UNCHANGED <<wsOpen, outbox, mcp_request_id, agent_executor, listener_task,
                   mainpc, workers>>

\* no tool has returned to the engine of this work item yet
NoToolOut == [kind |-> "none", name |-> Absent, detail |-> Absent]

NewWorker(message, message_id) ==
    [message |-> message, mid |-> message_id, pc |-> "start", engine |-> FALSE,
     tool_out |-> NoToolOut]

\* variant: "await self.process_agent_message(...)": the loop waits for the
\* work item instead of going on to the next receive_text
create_task_awaited(message, message_id) ==
    [task |-> "awaiting", workers |-> Append(workers, NewWorker(message, message_id))]

\* line 40: asyncio.create_task; the loop goes on to the next receive_text
create_task(message, message_id) ==
    [task |-> "running", workers |-> Append(workers, NewWorker(message, message_id))]

\* variant: a task is started whatever the message field holds
ListenWorkItem_any(message, message_id) ==
    /\ UNCHANGED dvars
    /\ Listening
    /\ wsOpen
    /\ Len(workers) < MaxWork
    /\ LET r == create_task(message, message_id) IN
        /\ workers' = r.workers
        /\ listener_task' = r.task
    /\ ignored' = (IF Truthy(message) THEN NotIgnored ELSE message_id)
    /\ logged' = <<>>
    /\ UNCHANGED <<wsOpen, outbox, mcp_request_id, pending_mcp_requests, calls,
                   agent_executor, mainpc>>

\* lines 37-40: any other decodable frame
ListenWorkItem(message, message_id) ==
    /\ UNCHANGED dvars
    /\ Listening
    /\ wsOpen
    /\ IF Truthy(message)
       THEN /\ Len(workers) < MaxWork
            /\ LET r == create_task(message, message_id) IN
                /\ workers' = r.workers
                /\ listener_task' = r.task
       ELSE UNCHANGED <<workers, listener_task>>
    /\ ignored' = (IF Truthy(message) THEN NotIgnored ELSE message_id)
    /\ logged' = <<>>
    /\ UNCHANGED <<wsOpen, outbox, mcp_request_id, pending_mcp_requests, calls,
                   agent_executor, mainpc>>

\* variant: an undecodable frame ends the loop
ListenMalformed_fatal ==
    /\ UNCHANGED dvars
    /\ ignored' = NotIgnored
    /\ Listening
    /\ wsOpen
    /\ listener_task' = cleanup(listener_task)
    /\ logged' = <<Log("error", "Invalid JSON format received"), CleanupLog>>
    /\ UNCHANGED <<wsOpen, outbox, mcp_request_id, pending_mcp_requests, calls,
                   agent_executor, mainpc, workers>>

\* lines 42-43: json.loads raised JSONDecodeError
ListenMalformed ==
    /\ UNCHANGED dvars
    /\ ignored' = NotIgnored
    /\ Listening
    /\ wsOpen
    /\ logged' = <<Log("error", "Invalid JSON format received")>>
    /\ UNCHANGED <<wsOpen, outbox, mcp_request_id, pending_mcp_requests, calls,
                   agent_executor, listener_task, mainpc, workers>>

\* lines 47-52: receive_text raised WebSocketDisconnect; finally: cleanup
ListenDisconnect ==
    /\ UNCHANGED dvars
    /\ ignored' = NotIgnored
    /\ Listening
    /\ ~wsOpen
    /\ listener_task' = cleanup(listener_task)
    /\ logged' = <<Log("info", "WebSocket disconnected."), CleanupLog>>
    /\ UNCHANGED <<wsOpen, outbox, mcp_request_id, pending_mcp_requests, calls,
                   agent_executor, mainpc, workers>>

----------------------------------------------------------------------------
(* ConnectionManager.send_mcp_request, lines 90-100, for call c *)

\* variant: the "except Exception" clause leaves the entry in the table
ErrorPending_nopop(c) == pending_mcp_requests

\* line 99: self.pending_mcp_requests.pop(request_id, None)
ErrorPending(c) == DictPop(pending_mcp_requests, calls[c].id)

\* line 91 returns and wait_for starts (line 92), or send_text raises and the
\* "except Exception" clause runs (lines 97-100)
CallSend(c) ==
    /\ UNCHANGED dvars
    /\ ignored' = NotIgnored
    /\ c \in 1 .. Len(calls)
    /\ calls[c].pc = "sending"
    /\ IF wsOpen
       THEN /\ outbox' = outbox (+) SetToBag({RequestFrame(calls[c].id, calls[c].method, calls[c].name,
                                                            calls[c].arguments)})
            /\ calls' = [calls EXCEPT ![c].pc = "waiting", ![c].elapsed = 0]
            /\ logged' = <<>>
            /\ UNCHANGED <<pending_mcp_requests, agent_executor, mainpc, workers>>
       ELSE /\ calls' = [calls EXCEPT ![c].pc = "error"]
            /\ pending_mcp_requests' = ErrorPending(c)
            /\ Continue(calls[c].task, calls[c].name, Raised("send_error"),
                        <<Log("error", "Error during MCP request")>>)
            /\ UNCHANGED outbox
    /\ UNCHANGED <<wsOpen, mcp_request_id, listener_task>>

\* lines 92-93: the future has a result, wait_for returns it
CallReturn(c) ==
    /\ UNCHANGED dvars
    /\ ignored' = NotIgnored
    /\ c \in 1 .. Len(calls)
    /\ calls[c].pc = "waiting"
    /\ calls[c].fut = "result"
    /\ calls' = [calls EXCEPT ![c].pc = "returned", ![c].elapsed = 0]
    /\ Continue(calls[c].task, calls[c].name, Response(calls[c].result), <<>>)
    /\ UNCHANGED <<wsOpen, outbox, mcp_request_id, pending_mcp_requests, listener_task>>

\* what the "except asyncio.TimeoutError" clause (lines 94-96) does to the
\* pending table: nothing
TimeoutPending(c) == pending_mcp_requests

\* lines 92, 94-96: the deadline passes, wait_for cancels the future and
\* raises TimeoutError
CallTimeout(c) ==
    /\ UNCHANGED dvars
    /\ ignored' = NotIgnored
    /\ c \in 1 .. Len(calls)
    /\ calls[c].pc = "waiting"
    /\ calls[c].fut = "pending"
    /\ calls[c].elapsed >= TIMEOUT
    /\ calls' = [calls EXCEPT ![c].pc = "timeout", ![c].fut = "cancelled", ![c].elapsed = 0]
    /\ pending_mcp_requests' = TimeoutPending(c)
    /\ Continue(calls[c].task, calls[c].name, Raised("timeout"),
                <<Log("error", "Timeout waiting for MCP response")>>)
    /\ UNCHANGED <<wsOpen, outbox, mcp_request_id, listener_task>>

Waiting(c) == calls[c].pc = "waiting" /\ calls[c].fut = "pending"

\* time passes for every call suspended in wait_for; a timer that is due
\* fires before more time passes
Tick ==
    /\ UNCHANGED dvars
    /\ ignored' = NotIgnored
    /\ \E c \in 1 .. Len(calls) : Waiting(c)
    /\ \A c \in 1 .. Len(calls) : Waiting(c) => calls[c].elapsed < TIMEOUT
    /\ calls' = [c \in 1 .. Len(calls) |->
                    IF Waiting(c)
                    THEN [calls[c] EXCEPT !.elapsed = @ + TickStep]
                    ELSE calls[c]]
    /\ logged' = <<>>
    /\ UNCHANGED <<wsOpen, outbox, mcp_request_id, pending_mcp_requests,
                   agent_executor, listener_task, mainpc, workers>>

----------------------------------------------------------------------------
(* ConnectionManager.process_agent_message, for the task of work item w *)

\* variant: the readiness test is missing
NotReady_unchecked == FALSE

\* line 104: "if not self.agent_executor"
NotReady == ~agent_executor.bound

\* variant: the frame is written twice
SendReply_twice(w, shape, text) ==
    IF wsOpen
    THEN [outbox |-> outbox (+) SetToBag({WorkReply(w, shape, text, workers[w].mid)})
                            (+) SetToBag({WorkReply(w, shape, text, workers[w].mid)}),
          pc |-> "done"]
    ELSE [outbox |-> outbox, pc |-> "raised"]

\* websocket.send_text of a reply of work item w: the next outbox and the
\* position of the task ("raised": the send raised out of the coroutine)
SendReply(w, shape, text) ==
    IF wsOpen
    THEN [outbox |-> outbox (+) SetToBag({WorkReply(w, shape, text, workers[w].mid)}), pc |-> "done"]
    ELSE [outbox |-> outbox, pc |-> "raised"]

\* lines 104-112: the task starts; not ready -> error reply and return,
\* else the engine is invoked (await ainvoke)
ProcessStart(w) ==
    /\ UNCHANGED dvars
    /\ ignored' = NotIgnored
    /\ w \in 1 .. Len(workers)
    /\ workers[w].pc = "start"
    /\ IF NotReady
       THEN LET r == SendReply(w, "error", "Agent not ready") IN
            /\ outbox' = r.outbox
            /\ workers' = [workers EXCEPT ![w].pc = r.pc]
       ELSE /\ workers' = [workers EXCEPT ![w].pc = "engine", ![w].engine = TRUE]
            /\ UNCHANGED outbox
    /\ logged' = <<>>
    /\ UNCHANGED <<wsOpen, mcp_request_id, pending_mcp_requests, calls,
                   agent_executor, listener_task, mainpc>>

\* the engine invokes a bound tool: _arun lines 140-145 -> lines 76-88
EngineCallTool(w, name, kwargs) ==
    /\ UNCHANGED dvars
    /\ ignored' = NotIgnored
    /\ w \in 1 .. Len(workers)
    /\ workers[w].pc = "engine"
    /\ name \in agent_executor.tools
    /\ send_mcp_request(w, "tools/call", name, to_jsonable_python(kwargs))
    /\ workers' = [workers EXCEPT ![w].pc = "calling"]
    /\ logged' = <<>>
    /\ UNCHANGED <<wsOpen, outbox, agent_executor, listener_task, mainpc>>

\* lines 112-117: ainvoke returns; the result frame is sent.  If that send
\* raises, the except clause (lines 118-123) sends an error frame, and on a
\* closed transport that send raises too
EngineReturn(w) ==
    /\ UNCHANGED dvars
    /\ ignored' = NotIgnored
    /\ w \in 1 .. Len(workers)
    /\ workers[w].pc = "engine"
    /\ LET r == SendReply(w, "result", "output") IN
        /\ outbox' = r.outbox
        /\ workers' = [workers EXCEPT ![w].pc = r.pc]
    /\ logged' = IF wsOpen THEN <<>>
                 ELSE <<Log("error", "Error during agent processing")>>
    /\ UNCHANGED <<wsOpen, mcp_request_id, pending_mcp_requests, calls,
                   agent_executor, listener_task, mainpc>>

\* lines 118-123: ainvoke raises; the error frame is sent
EngineFail(w) ==
    /\ UNCHANGED dvars
    /\ ignored' = NotIgnored
    /\ w \in 1 .. Len(workers)
    /\ workers[w].pc = "engine"
    /\ LET r == SendReply(w, "error", "engine error") IN
        /\ outbox' = r.outbox
        /\ workers' = [workers EXCEPT ![w].pc = r.pc]
    /\ logged' = <<Log("error", "Error during agent processing")>>
    /\ UNCHANGED <<wsOpen, mcp_request_id, pending_mcp_requests, calls,
                   agent_executor, listener_task, mainpc>>

----------------------------------------------------------------------------
Next ==
    \/ start_listening
    \/ DiscoverIssue
    \/ websocket_chat_exit
    \/ CancelHandler
    \/ PeerDisconnect
    \/ \E frame \in ReplyFrames : ListenReply(frame)
    \/ \E message \in Messages, message_id \in MessageIds : ListenWorkItem(message, message_id)
    \/ ListenMalformed
    \/ ListenDisconnect
    \/ \E c \in 1 .. MaxCalls : CallSend(c)
    \/ \E c \in 1 .. MaxCalls : CallReturn(c)
    \/ \E c \in 1 .. MaxCalls : CallTimeout(c)
    \/ Tick
    \/ \E w \in 1 .. MaxWork : ProcessStart(w)
    \/ \E w \in 1 .. MaxWork, name \in ToolNames, kwargs \in Kwargs :
           EngineCallTool(w, name, kwargs)
    \/ \E w \in 1 .. MaxWork : EngineReturn(w)
    \/ \E w \in 1 .. MaxWork : EngineFail(w)

Spec == Init /\ [][Next]_vars

----------------------------------------------------------------------------
(* discover_and_create_tools, lines 168-190: the loop that turns the       *)
(* descriptors of a tools/list result into proxies.  It has no await, so   *)
(* the handler runs it in one step; Continue above keeps only the names.   *)

\* descriptors per tools/list result
MaxTools == 3

DescriptorNames == {"fill", "click"}

\* tool_info: "inputSchema" may be missing, convertible or not convertible
ToolDescriptors == [name : DescriptorNames, inputSchema : {Absent, "ok", "bad"}]

ToolLists == UNION {[1 .. n -> ToolDescriptors] : n \in 0 .. MaxTools}

\* jsonschema_to_pydantic(schema): a model class, or an exception
jsonschema_to_pydantic(schema) ==
    IF schema = "ok" THEN [raised |-> FALSE, model |-> "model"]
                     ELSE [raised |-> TRUE, model |-> "None"]

\* DynamicMCPTool(name=..., args_schema=...)
DynamicMCPTool(name, args_schema) == [name |-> name, args_schema |-> args_schema]

\* variant: the conversion is not wrapped in try/except
OneTool_uncaught(tool_info) ==
    IF tool_info.inputSchema = Absent
    THEN [raised |-> FALSE, tool |-> DynamicMCPTool(tool_info.name, "None")]
    ELSE LET r == jsonschema_to_pydantic(tool_info.inputSchema) IN
         [raised |-> r.raised, tool |-> DynamicMCPTool(tool_info.name, r.model)]

\* lines 172-187, one iteration: the proxy built for tool_info
OneTool(tool_info) ==
    IF tool_info.inputSchema = Absent
    THEN [raised |-> FALSE, tool |-> DynamicMCPTool(tool_info.name, "None")]
    ELSE LET r == jsonschema_to_pydantic(tool_info.inputSchema) IN
         [raised |-> FALSE,
          tool |-> DynamicMCPTool(tool_info.name, IF r.raised THEN "None" ELSE r.model)]

\* lines 170-194: the loop; an exception that leaves an iteration ends in
\* the outer except clause, which returns []
RECURSIVE BuildTools(_, _)
BuildTools(data, acc) ==
    IF data = <<>>
    THEN acc
    ELSE LET r == OneTool(Head(data)) IN
         IF r.raised THEN <<>>
         ELSE BuildTools(Tail(data), Append(acc, r.tool))

\* line 178, once per descriptor whose schema does not convert
RECURSIVE BuildLogs(_)
BuildLogs(data) ==
    IF data = <<>>
    THEN <<>>
    ELSE (IF Head(data).inputSchema = "bad"
          THEN <<Log("error", "Failed to create Pydantic model")>>
          ELSE <<>>) \o BuildLogs(Tail(data))

\* the handler at line 168: the reply to tools/list has come back with a
\* result holding tools_data
InitDiscover ==
    /\ wsOpen = TRUE
    /\ outbox = SetToBag({RequestFrame(1, "tools/list", Absent, Absent)})
    /\ mcp_request_id = 1
    /\ pending_mcp_requests = EmptyDict
    /\ calls = <<[NewCall(MAIN, 1, "tools/list", Absent, Absent) EXCEPT
                    !.pc = "returned", !.fut = "result",
                    !.result = [id |-> 1, body |-> "result_tools"]]>>
    /\ agent_executor = [bound |-> FALSE, tools |-> {}]
    /\ listener_task = "running"
    /\ mainpc = "discovering"
    /\ workers = <<>>
    /\ logged = <<>>
    /\ ignored = NotIgnored
    /\ tools_data \in ToolLists
    /\ tools = <<>>

\* lines 170-190 and 220-223: the proxies are built and bound to an agent
BuildProxies ==
    /\ mainpc = "discovering"
    /\ tools' = BuildTools(tools_data, <<>>)
    /\ agent_executor' = Bind({tools'[i].name : i \in 1 .. Len(tools')})
    /\ mainpc' = "await"
    /\ logged' = BuildLogs(tools_data)
    /\ UNCHANGED <<wsOpen, outbox, mcp_request_id, pending_mcp_requests, calls,
                   listener_task, workers, ignored, tools_data>>

NextDiscover == BuildProxies

SpecDiscover == InitDiscover /\ [][NextDiscover]_vars

----------------------------------------------------------------------------
(* Helpers of the properties *)

Calls == 1 .. Len(calls)
Workers == 1 .. Len(workers)

\* the listener loop has ended and its finally clause has run cleanup
TornDown == listener_task \in {"finished", "cancelled"}

\* send_mcp_request has returned or raised
Terminal(c) == calls[c].pc \in {"returned", "timeout", "error"}

\* the caller is suspended inside send_mcp_request
Suspended(c) == calls[c].pc \in {"sending", "waiting"}

\* number of reply frames of work item w on the connection
ReplyFramesOf(w) ==
    {f \in BagToSet(outbox) : f.kind = "reply" /\ f.src = w}

ReplyCount(w) ==
    BagCardinality([f \in ReplyFramesOf(w) |-> outbox[f]])

----------------------------------------------------------------------------
\* C1: every response returned by send_mcp_request, and every result placed
\* in a future, is a reply frame carrying the id allocated to that call,
\* whatever the interleaving of calls and the arrival order of replies.
C1_OwnReply ==
    \A c \in Calls :
        /\ calls[c].fut = "result" => calls[c].result.id = calls[c].id
        /\ calls[c].pc = "returned" =>
               /\ calls[c].fut = "result"
               /\ calls[c].result \in ReplyFrames
               /\ calls[c].result.id = calls[c].id

\* two calls in flight, the later one answered and returned first
C1_Witness ==
    \E c1, c2 \in Calls :
        /\ c1 < c2
        /\ calls[c1].pc = "waiting" /\ calls[c1].fut = "pending"
        /\ calls[c2].pc = "returned"

----------------------------------------------------------------------------
\* C2 (as the specification states it): the step that tears the session down (the listener loop
\* ends and cleanup runs) fails every caller still waiting for a reply, so
\* right after it no caller is suspended on a pending future and the pending
\* table is empty.
C2_TeardownFailsPending ==
    [][(~TornDown /\ TornDown') =>
          /\ \A c \in 1 .. Len(calls') :
                 ~(calls'[c].pc = "waiting" /\ calls'[c].fut = "pending")
          /\ DOMAIN pending_mcp_requests' = {}]_vars

----------------------------------------------------------------------------
\* C3 (as the specification states it): a request that has reached a terminal event (its caller
\* got the reply, a TimeoutError or a send error) has no entry in the
\* pending table.
C3_TerminalRemoved ==
    \A c \in Calls : Terminal(c) => calls[c].id \notin DOMAIN pending_mcp_requests

----------------------------------------------------------------------------
\* the id belongs to a request whose caller already got TimeoutError
Late(id) == \E c \in Calls : calls[c].id = id /\ calls[c].pc = "timeout"

\* C4: a reply frame arriving after its request timed out is dropped: the
\* step that handles it completes no future and changes no caller (neither
\* the timed-out one nor any other), the listener keeps running, and a
\* timed-out call never holds a result.
C4_LateReplyDropped ==
    [][/\ \A frame \in ReplyFrames :
              (Late(frame.id) /\ ListenReply(frame)) =>
                  /\ calls' = calls
                  /\ workers' = workers
                  /\ mainpc' = mainpc
                  /\ listener_task' = "running"
       /\ \A c \in 1 .. Len(calls') :
              calls'[c].pc = "timeout" =>
                  /\ calls'[c].fut = "cancelled"
                  /\ calls'[c].result = NoResult]_vars

\* a late reply has been handled: the entry of a timed-out request is gone
\* from the table (only handle_mcp_response removes it) and the loop goes on
C4_Witness ==
    \E c \in Calls :
        /\ calls[c].pc = "timeout"
        /\ calls[c].id \notin DOMAIN pending_mcp_requests
        /\ listener_task = "running"

----------------------------------------------------------------------------
UnknownIdWarning == <<Log("warning", "Received response for unknown request ID")>>

\* C5: handling a reply frame whose id is not in the pending table (never
\* issued, already resolved, or no id at all) raises nothing and does not
\* end the listener loop: the frame is dropped with the warning logged, the
\* pending table and every caller are unchanged and the listener is still
\* reading.
C5_UnknownReplyDropped ==
    [][\A frame \in ReplyFrames :
           (frame.id \notin DOMAIN pending_mcp_requests /\ ListenReply(frame)) =>
               /\ logged' = UnknownIdWarning
               /\ pending_mcp_requests' = pending_mcp_requests
               /\ calls' = calls
               /\ workers' = workers
               /\ listener_task' = "running"
               /\ Listening']_vars

\* the warning has just been logged for a reply whose request was already
\* answered, while another request is still pending and the loop is running
C5_Witness ==
    /\ logged = UnknownIdWarning
    /\ Listening
    /\ \E c \in Calls : calls[c].pc = "returned"
    /\ \E c \in Calls : Waiting(c)

----------------------------------------------------------------------------
\* the messageId a reply to work item w has to carry
Echo(w) == IF workers[w].mid = NoMessageId THEN Absent ELSE workers[w].mid

GoodReply(w, f) ==
    /\ f.shape \in {"result", "error"}
    /\ f.messageId = Echo(w)

Finished(w) == workers[w].pc \in {"done", "raised"}

\* C6 (as the specification states it): every work item whose processing is over has yielded
\* exactly one reply frame, a result or an error carrying its messageId,
\* also when the engine or a send failed.
C6_ExactlyOneReply ==
    \A w \in Workers :
        Finished(w) =>
            /\ ReplyCount(w) = 1
            /\ \A f \in ReplyFramesOf(w) : GoodReply(w, f)

\* C6 (as the code has it): a work item never yields more than one reply frame; once
\* its processing is over it has yielded exactly one (a result or an error,
\* carrying its messageId when one was supplied) if the reply could be sent,
\* and none if the send raised, which happens only on a closed transport.
\* Work items processed concurrently each get their own frame.
C6_AtMostOneReply ==
    /\ \A w \in Workers :
          /\ ReplyCount(w) <= 1
          /\ \A f \in ReplyFramesOf(w) : GoodReply(w, f)
          /\ workers[w].pc = "done" => ReplyCount(w) = 1
          /\ workers[w].pc = "raised" => (ReplyCount(w) = 0 /\ ~wsOpen)
          /\ ~Finished(w) => ReplyCount(w) = 0
    /\ \A f \in BagToSet(outbox) : f.kind = "reply" => f.src \in Workers

\* two work items: one answered after its engine ran, with its messageId,
\* the other lost its reply to a closed transport
C6_Witness ==
    \E w1, w2 \in Workers :
        /\ w1 # w2
        /\ workers[w1].pc = "done" /\ workers[w1].engine /\ workers[w1].mid = "1"
        /\ workers[w2].pc = "raised"

----------------------------------------------------------------------------
NotReadyReply(w) == WorkReply(w, "error", "Agent not ready", workers[w].mid)

----------------------------------------------------------------------------
\* C8: the listener task exists before any request is allocated or sent, and
\* while the session is up a reply to a request that is waiting can be read
\* by the listener.
C8_ListenerFirst ==
    /\ (mcp_request_id > 0 \/ Len(calls) > 0 \/ outbox # EmptyBag) =>
           listener_task # "None"
    /\ \A c \in Calls :
           (Waiting(c) /\ wsOpen /\ ~TornDown) =>
               ENABLED ListenReply([id |-> calls[c].id, body |-> "result_plain"])

\* the reply to the discovery request has been read by the listener
C8_Witness ==
    \E c \in Calls :
        /\ calls[c].task = MAIN
        /\ calls[c].fut = "result"
        /\ listener_task = "running"

----------------------------------------------------------------------------
\* C9: while a work item is being processed the listener is not waiting for
\* it: whenever a work item is unfinished and the session is up, the loop is
\* in receive_text, and if the work item is suspended on a request of its
\* own, a reply to that request can be read and resolves exactly that
\* request.
C9_ListenerNotBlocked ==
    \A w \in Workers :
        (~Finished(w) /\ ~TornDown) =>
            /\ listener_task = "running"
            /\ \A c \in Calls :
                   (calls[c].task = w /\ Waiting(c) /\ wsOpen) =>
                       \A body \in Bodies :
                           LET frame == [id |-> calls[c].id, body |-> body]
                               r == handle_mcp_response(frame) IN
                           /\ ENABLED ListenReply(frame)
                           /\ r.outcome = "resolved"
                           /\ r.calls[c].fut = "result"
                           /\ r.calls[c].result = frame

\* a work item is still suspended in its tool call and the reply to that
\* call has been received and has resolved its future
C9_Witness ==
    \E w \in Workers, c \in Calls :
        /\ workers[w].pc = "calling"
        /\ calls[c].task = w
        /\ calls[c].pc = "waiting"
        /\ calls[c].fut = "result"

----------------------------------------------------------------------------
\* C10: ids are allocated strictly increasing and never reused: calls made
\* in any interleaving have distinct, increasing ids; every key of the
\* pending table lies in 1..mcp_request_id and maps to the one call that was
\* given that id.
C10_IdsUnique ==
    /\ \A c1, c2 \in Calls : c1 < c2 => calls[c1].id < calls[c2].id
    /\ \A c \in Calls : calls[c].id \in 1 .. mcp_request_id
    /\ \A i \in DOMAIN pending_mcp_requests :
           /\ i \in 1 .. mcp_request_id
           /\ pending_mcp_requests[i] \in Calls
           /\ calls[pending_mcp_requests[i]].id = i

\* two requests of different tasks pending at once
C10_Witness ==
    \E c1, c2 \in Calls :
        /\ c1 # c2
        /\ calls[c1].task # calls[c2].task
        /\ {calls[c1].id, calls[c2].id} \subseteq DOMAIN pending_mcp_requests
        /\ Suspended(c1) /\ Suspended(c2)

----------------------------------------------------------------------------
\* C11: resolving is idempotent against duplicate replies: the first reply
\* for an id removes the entry from the pending table and completes the
\* caller's future with that frame; a future that has a result keeps it for
\* good, its id stays out of the table, and the step that handles another
\* reply with the same id changes neither any future nor the table.
C11_DuplicateNoop ==
    [][/\ \A c \in Calls :
              /\ (calls[c].fut = "pending" /\ calls'[c].fut = "result") =>
                     /\ calls[c].id \in DOMAIN pending_mcp_requests
                     /\ calls[c].id \notin DOMAIN pending_mcp_requests'
                     /\ calls'[c].result.id = calls[c].id
              /\ calls[c].fut = "result" =>
                     /\ calls'[c].fut = "result"
                     /\ calls'[c].result = calls[c].result
                     /\ calls[c].id \notin DOMAIN pending_mcp_requests'
       /\ \A frame \in ReplyFrames :
              (/\ ListenReply(frame)
               /\ \E c \in Calls : calls[c].id = frame.id /\ calls[c].fut = "result") =>
                  /\ calls' = calls
                  /\ pending_mcp_requests' = pending_mcp_requests]_vars

\* the only request made so far has its result, its caller has not resumed
\* yet, and a further reply has just been dropped as unknown
C11_Witness ==
    /\ Len(calls) = 1
    /\ calls[1].fut = "result"
    /\ calls[1].pc = "waiting"
    /\ pending_mcp_requests = EmptyDict
    /\ logged = UnknownIdWarning

----------------------------------------------------------------------------
MalformedLog == <<Log("error", "Invalid JSON format received")>>

\* C12: the step that reads an undecodable frame logs it and changes
\* nothing else: no pending request, no future, no frame sent, no task; the
\* listener and the session stay up, and right after it the loop can read
\* the next frame and route it as usual (a reply to a waiting request still
\* resolves it, a work item still starts a task).
C12_MalformedSkipped ==
    /\ [][ListenMalformed =>
             /\ logged' = MalformedLog
             /\ pending_mcp_requests' = pending_mcp_requests
             /\ calls' = calls
             /\ outbox' = outbox
             /\ workers' = workers
             /\ mainpc' = mainpc
             /\ agent_executor' = agent_executor
             /\ listener_task' = "running"
             /\ wsOpen']_vars
    /\ [](logged = MalformedLog =>
             /\ Listening /\ wsOpen
             /\ \A frame \in ReplyFrames : ENABLED ListenReply(frame)
             /\ \A c \in Calls :
                    Waiting(c) =>
                        handle_mcp_response([id |-> calls[c].id,
                                             body |-> "result_plain"]).outcome = "resolved"
             /\ Len(workers) < MaxWork => ENABLED ListenWorkItem("A", "1"))

\* an undecodable frame has just been skipped while a request is waiting
\* for its reply and a work item is being processed
C12_Witness ==
    /\ logged = MalformedLog
    /\ listener_task = "running"
    /\ \E c \in Calls : Waiting(c)
    /\ \E w \in Workers : workers[w].pc = "calling"

----------------------------------------------------------------------------
\* a call made by a proxy (DynamicMCPTool._arun), not by discovery
ProxyCall(c) == calls[c].task # MAIN

\* the Request frames on the connection that carry this id
RequestFramesOf(id) ==
    {f \in BagToSet(outbox) : f.kind = "request" /\ f.id = id}

RequestCount(id) ==
    BagCardinality([f \in RequestFramesOf(id) |-> outbox[f]])

\* c is the latest call of its task
LastCallOfTask(c) ==
    \A c2 \in Calls : calls[c2].task = calls[c].task => c2 <= c

----------------------------------------------------------------------------
\* discovery is over: discover_and_create_tools has returned
Discovered == mainpc \in {"await", "closed"}

\* the discovery request (the first call, made by the handler) ended without
\* a usable tool list: error-shaped reply, result without tools, timeout or
\* send error
DiscoveryEmpty ==
    /\ Len(calls) >= 1
    /\ \/ calls[1].pc \in {"timeout", "error"}
       \/ /\ calls[1].pc = "returned"
          /\ calls[1].result.body \in {"error", "result_plain"}

\* C14: discovery that yields no proxies is not fatal: once discovery is
\* over an agent is bound (and none before), with zero tools when discovery
\* ended empty, and a work item whose processing starts with that agent
\* bound is handed to the engine and not answered "not ready".
C14_EmptyDiscoveryReady ==
    /\ [](/\ Discovered <=> agent_executor.bound
          /\ DiscoveryEmpty => agent_executor = [bound |-> TRUE, tools |-> {}])
    /\ [][\A w \in Workers :
              (ProcessStart(w) /\ agent_executor.bound /\ agent_executor.tools = {}) =>
                  /\ workers'[w].engine
                  /\ workers'[w].pc = "engine"
                  /\ outbox' = outbox]_vars

\* the list request got an error-shaped reply, and a work item handled
\* afterwards went through the engine and got its result frame
C14_Witness ==
    /\ Len(calls) >= 1
    /\ calls[1].pc = "returned"
    /\ calls[1].result.body = "error"
    /\ agent_executor = [bound |-> TRUE, tools |-> {}]
    /\ \E w \in Workers :
           /\ workers[w].engine
           /\ workers[w].pc = "done"
           /\ \E f \in ReplyFramesOf(w) : f.shape = "result"

----------------------------------------------------------------------------
\* C15: a descriptor whose inputSchema does not convert does not abort
\* discovery: the proxies returned are one per descriptor of the result, in
\* order and under the descriptor's name, typed when the schema converted
\* and untyped (args_schema None) when it was missing or failed to convert.
C15_SchemaFailureTolerated ==
    mainpc = "await" =>
        /\ Len(tools) = Len(tools_data)
        /\ \A i \in 1 .. Len(tools_data) :
               /\ tools[i].name = tools_data[i].name
               /\ tools[i].args_schema =
                      (IF tools_data[i].inputSchema = "ok" THEN "model" ELSE "None")
        /\ agent_executor.bound
        /\ agent_executor.tools = {tools_data[i].name : i \in 1 .. Len(tools_data)}

\* a result of three descriptors, the middle one with a schema that fails
\* to convert, has been turned into three proxies
C15_Witness ==
    /\ mainpc = "await"
    /\ Len(tools_data) = 3
    /\ tools_data[1].inputSchema = "ok"
    /\ tools_data[2].inputSchema = "bad"
    /\ tools_data[3].inputSchema = "ok"
    /\ Len(tools) = 3
    /\ tools[2].args_schema = "None"
    /\ tools[3].args_schema = "model"

----------------------------------------------------------------------------
TaskStates == {"None", "running", "finished", "cancelled"}

\* C16: cleanup is idempotent: applied to a task it has already dealt with
\* it changes nothing, and the second call, made when the connection
\* handler exits after the listener loop has ended and run cleanup itself,
\* raises nothing and leaves the listener task, the pending table, the
\* futures and the frames sent as the first call left them.
C16_CleanupIdempotent ==
    /\ [](/\ \A t \in TaskStates : cleanup(cleanup(t)) = cleanup(t)
          /\ mainpc = "closed" => TornDown)
    /\ [][websocket_chat_exit =>
             /\ TornDown
             /\ listener_task' = listener_task
             /\ pending_mcp_requests' = pending_mcp_requests
             /\ calls' = calls
             /\ outbox' = outbox
             /\ workers' = workers
             /\ agent_executor' = agent_executor
             /\ mainpc' = "closed"
             /\ logged'[Len(logged')] = CleanupLog]_vars

\* the handler has exited: cleanup has run in the listener's finally clause
\* and again in the handler's
C16_Witness ==
    /\ mainpc = "closed"
    /\ listener_task = "cancelled"
    /\ logged = <<Log("info", "WebSocket handler's listener task was cancelled."),
                  CleanupLog>>

----------------------------------------------------------------------------
\* C17: the future is stored under the allocated id before the Request is
\* sent: a call that has not reached a terminal event and has no reply yet
\* has its entry in the pending table, already while its frame is still to
\* be sent; every Request frame on the connection belongs to a call that
\* got past its send; and a reply to a request that is waiting finds its id
\* in the table and resolves it.
C17_StoredBeforeSend ==
    /\ \A c \in Calls :
          (~Terminal(c) /\ calls[c].fut = "pending") =>
              /\ calls[c].id \in DOMAIN pending_mcp_requests
              /\ pending_mcp_requests[calls[c].id] = c
    /\ \A f \in BagToSet(outbox) :
          f.kind = "request" =>
              \E c \in Calls : calls[c].id = f.id /\ calls[c].pc # "sending"
    /\ \A c \in Calls :
          Waiting(c) =>
              \A body \in Bodies :
                  handle_mcp_response([id |-> calls[c].id, body |-> body]).outcome
                      = "resolved"

\* one call has stored its future and not sent its frame yet, while the
\* reply to another call, sent earlier, has found its entry
C17_Witness ==
    \E c1, c2 \in Calls :
        /\ calls[c1].pc = "sending"
        /\ calls[c1].id \in DOMAIN pending_mcp_requests
        /\ RequestCount(calls[c1].id) = 0
        /\ RequestCount(calls[c2].id) = 1
        /\ calls[c2].fut = "result"
        /\ calls[c2].result.id = calls[c2].id

----------------------------------------------------------------------------
\* the proxy call of work item w that ended last ended in a failure
ToolFailed(w) == workers[w].tool_out.kind = "error_string"

\* C18 (as the specification states it): a work item whose proxy invocation
\* failed (error-shaped reply, timeout or send failure) got the descriptive
\* string and, once its processing is over, has its own reply frame on the
\* connection.
C18_AlwaysCompletes ==
    \A w \in Workers :
        /\ workers[w].tool_out.kind \in {"none", "result_string", "error_string"}
        /\ (ToolFailed(w) /\ Finished(w)) => ReplyCount(w) = 1

\* C18 (as the code has it): the step in which a proxy call ends, however
\* it ends, returns the work item to its engine with a string that names
\* the capability (the error string unless a result came back) and sends no
\* reply frame; the engine can then finish at any time, and the work item
\* ends with its own reply frame unless the transport is closed when that
\* reply is sent, in which case the send raises and no frame is produced.
C18_NoFaultIntoEngine ==
    /\ [][\A c \in Calls :
              (ProxyCall(c) /\ ~Terminal(c)
                 /\ calls'[c].pc \in {"returned", "timeout", "error"}) =>
                  LET w == calls[c].task IN
                  /\ workers'[w].pc = "engine"
                  /\ workers'[w].tool_out.name = calls[c].name
                  /\ workers'[w].tool_out.kind =
                         (IF calls'[c].pc = "returned" /\ calls'[c].result.body # "error"
                          THEN "result_string" ELSE "error_string")
                  /\ outbox' = outbox]_vars
    /\ [](\A w \in Workers :
              /\ workers[w].tool_out.kind \in {"none", "result_string", "error_string"}
              /\ workers[w].pc = "engine" => ENABLED EngineReturn(w)
              /\ ToolFailed(w) =>
                    /\ workers[w].tool_out.name \in ToolNames
                    /\ workers[w].pc = "done" => ReplyCount(w) = 1
                    /\ workers[w].pc = "raised" => (ReplyCount(w) = 0 /\ ~wsOpen))

\* one work item whose tool call timed out and one whose tool call could
\* not be sent: the first has its result frame, the second lost its reply
\* to the closed transport
C18_Witness ==
    \E w1, w2 \in Workers :
        /\ workers[w1].tool_out.kind = "error_string"
        /\ workers[w1].tool_out.detail = "timeout"
        /\ workers[w1].pc = "done"
        /\ \E f \in ReplyFramesOf(w1) : f.shape = "result"
        /\ workers[w2].tool_out.kind = "error_string"
        /\ workers[w2].tool_out.detail = "send_error"
        /\ workers[w2].pc = "raised"

----------------------------------------------------------------------------
\* C19: the step in which the send of a Request fails (the transport is
\* closed) removes exactly the entry of that call from the pending table,
\* sends nothing, leaves the id counter where the call put it and passes
\* the error to the caller (discovery ends with no tools, a proxy returns
\* its error string); afterwards the id of a call that failed this way is
\* not in the table and no frame with it was ever sent.
C19_SendFailureUndone ==
    /\ [][\A c \in Calls :
              (calls[c].pc = "sending" /\ calls'[c].pc # "sending") =>
                  \/ /\ wsOpen
                     /\ calls'[c].pc = "waiting"
                  \/ /\ ~wsOpen
                     /\ calls'[c].pc = "error"
                     /\ pending_mcp_requests' =
                            [k \in (DOMAIN pending_mcp_requests) \ {calls[c].id} |->
                                 pending_mcp_requests[k]]
                     /\ mcp_request_id' = mcp_request_id
                     /\ outbox' = outbox
                     /\ logged'[1] = Log("error", "Error during MCP request")
                     /\ IF calls[c].task = MAIN
                        THEN /\ mainpc' = "await"
                             /\ agent_executor' = [bound |-> TRUE, tools |-> {}]
                        ELSE workers'[calls[c].task].tool_out =
                                 [kind |-> "error_string", name |-> calls[c].name,
                                  detail |-> "send_error"]]_vars
    /\ [](\A c \in Calls :
              calls[c].pc = "error" =>
                  /\ calls[c].id \notin DOMAIN pending_mcp_requests
                  /\ calls[c].id \in 1 .. mcp_request_id
                  /\ RequestCount(calls[c].id) = 0)

\* the send of a tool call failed and its entry is gone, while the entry of
\* an earlier request, still waiting, is untouched
C19_Witness ==
    \E c1, c2 \in Calls :
        /\ c1 < c2
        /\ Waiting(c1)
        /\ calls[c1].id \in DOMAIN pending_mcp_requests
        /\ calls[c2].pc = "error"
        /\ calls[c2].id \notin DOMAIN pending_mcp_requests
        /\ mcp_request_id >= calls[c2].id

----------------------------------------------------------------------------
\* C20: the step that reads a decodable frame which is not a reply and has
\* no non-empty message ignores it: no task is started, no frame is sent
\* (also when the frame carries a messageId), nothing is logged, the
\* pending table and the futures are unchanged, and the loop keeps reading.
C20_EmptyMessageIgnored ==
    /\ [][ignored' # NotIgnored =>
             /\ workers' = workers
             /\ outbox' = outbox
             /\ pending_mcp_requests' = pending_mcp_requests
             /\ calls' = calls
             /\ mcp_request_id' = mcp_request_id
             /\ agent_executor' = agent_executor
             /\ listener_task' = listener_task
             /\ mainpc' = mainpc
             /\ logged' = <<>>]_vars
    /\ [](ignored # NotIgnored => (Listening /\ wsOpen))

\* a frame with a messageId and no message has just been ignored: there is
\* no task and no reply frame, and the request that was pending still is
C20_Witness ==
    /\ ignored = "1"
    /\ workers = <<>>
    /\ \A f \in BagToSet(outbox) : f.kind = "request"
    /\ \E c \in Calls : Waiting(c) /\ calls[c].id \in DOMAIN pending_mcp_requests

====
